---- MODULE Spec2Model ----
(***************************************************************************)
(* Model of combine_csv_files.py: the import-time engine selection, main()  *)
(* and the two concatenation strategies combine_csv_polars and              *)
(* combine_csv_pandas.  Text is a sequence of one-character strings, so     *)
(* str.strip, str.split and str.join are computed character by character.   *)
(* A table is what read_csv returns: a header and a sequence of rows of a   *)
(* single column; the files' tables are drawn when the files are read.      *)
(***************************************************************************)
EXTENDS Integers, Sequences, FiniteSets, TLC

\* Bounds of the model.
MaxFiles == 2
MaxRows == 2

----------------------------------------------------------------------------
\* Characters and text.

NL == "\n"
SP == " "
QUOTE == "\""

\* The characters str.strip() removes that occur in the model.
Whitespace == {NL, SP}

\* A cell is null (None / NaN) or a non-empty unquoted text.
NullCell == [null |-> TRUE, text |-> <<>>]
Cells == {NullCell, [null |-> FALSE, text |-> <<"a">>]}

\* Column names: single-line, non-empty, no whitespace.
Headers == {<<"h">>, <<"g">>}

RowSeqs == UNION {[1..n -> Cells] : n \in 0..MaxRows}

\* The in-memory table read_csv returns (one column).
Tables == [header : Headers, rows : RowSeqs]

RECURSIVE LStrip(_)
LStrip(s) ==
    IF s # <<>> /\ Head(s) \in Whitespace THEN LStrip(Tail(s)) ELSE s

RECURSIVE RStrip(_)
RStrip(s) ==
    IF s # <<>> /\ s[Len(s)] \in Whitespace
    THEN RStrip(SubSeq(s, 1, Len(s) - 1))
    ELSE s

\* str.strip(): leading and trailing whitespace removed.
Strip(s) == RStrip(LStrip(s))

\* str.split('\n'): the pieces between separators; "" splits to [""].
RECURSIVE SplitFrom(_, _, _)
SplitFrom(s, k, cur) ==
    IF k > Len(s) THEN <<cur>>
    ELSE IF s[k] = NL THEN <<cur>> \o SplitFrom(s, k + 1, <<>>)
    ELSE SplitFrom(s, k + 1, Append(cur, s[k]))

Split(s) == SplitFrom(s, 1, <<>>)

\* '\n'.join(lines)
RECURSIVE Join(_)
Join(lines) ==
    IF lines = <<>> THEN <<>>
    ELSE IF Len(lines) = 1 THEN lines[1]
    ELSE lines[1] \o <<NL>> \o Join(Tail(lines))

\* lines[1:]
Slice1(lines) == IF lines = <<>> THEN <<>> ELSE Tail(lines)

\* str.lower() on the answers of the model.
Lower(r) == IF r = "Y" THEN "y" ELSE IF r = "N" THEN "n" ELSE r

----------------------------------------------------------------------------
\* Serialisation of a table by the two engines.

\* polars writes a null as nothing: a null row of a one-column table is an
\* empty line.
PolarsCell(c) == IF c.null THEN <<>> ELSE c.text

\* pandas (csv.writer) writes a one-field empty row as "".
PandasCell(c) == IF c.null THEN <<QUOTE, QUOTE>> ELSE c.text

RECURSIVE PolarsRows(_)
PolarsRows(rows) ==
    IF rows = <<>> THEN <<>>
    ELSE PolarsCell(Head(rows)) \o <<NL>> \o PolarsRows(Tail(rows))

RECURSIVE PandasRows(_)
PandasRows(rows) ==
    IF rows = <<>> THEN <<>>
    ELSE PandasCell(Head(rows)) \o <<NL>> \o PandasRows(Tail(rows))

\* df.write_csv(): header line, then one line per row.
PolarsWriteCsv(df) == df.header \o <<NL>> \o PolarsRows(df.rows)

\* df.to_csv(index=False, header=...)
PandasToCsv(df, header) ==
    (IF header THEN df.header \o <<NL>> ELSE <<>>) \o PandasRows(df.rows)

\* Faulty variant: the header is written for every file.
PolarsOutputTextKeepHeader(i, df) == PolarsWriteCsv(df)

\* What combine_csv_polars writes to f_out for the file with index i.
PolarsOutputText(i, df) ==
    IF i = 1
    THEN PolarsWriteCsv(df)
    ELSE Join(Slice1(Split(Strip(PolarsWriteCsv(df))))) \o <<NL>>

\* What combine_csv_pandas writes to the output for a file.
PandasOutputText(first, df) == PandasToCsv(df, first)

----------------------------------------------------------------------------
\* The environment and the program state.

VARIABLES
    installed,    \* the engines that can be imported
    dirExists,    \* dataverse_files/xdata exists
    listing,      \* directory entries: name -> "absent" | "csv" | "other"
    out0,         \* the output file before the run
    out,          \* the output file: [exists, content]
    outOpens,     \* number of times the output was opened for writing
    pc,           \* position in the script
    USE_POLARS,   \* module global set by the import block
    csv_files,    \* main's sorted list of input files (names)
    i,            \* 1-based index of the file the loop is at
    total_rows,   \* running total of the strategy
    first_file,   \* combine_csv_pandas' flag
    tables,       \* the tables read so far, in read order
    reads,        \* the names read_csv was called on, in call order
    stdout,       \* what was printed, in order
    status,       \* exit status; -1 while running
    fault,        \* the error the environment raised: [kind, k]
    response      \* the answer given to the overwrite prompt

vars == <<installed, dirExists, listing, out0, out, outOpens, pc, USE_POLARS,
          csv_files, i, total_rows, first_file, tables, reads, stdout,
          status, fault, response>>

Names == 1..MaxFiles
\* A directory is empty, or each name in it is a *.csv file or another file.
EmptyListing == [n \in Names |-> "absent"]
Listings == [Names -> {"csv", "other"}] \cup {EmptyListing}
Responses == {"y", "Y", "n", "N", ""}
OldContent == <<"o", NL>>
NoFile == [exists |-> FALSE, content |-> <<>>]
NoFault == [kind |-> "none", k |-> 0]

Msg(m, a) == [msg |-> m, arg |-> a]

\* sorted(xdata_dir.glob("*.csv")): the csv names in increasing order.
RECURSIVE SortedSeq(_)
SortedSeq(S) ==
    IF S = {} THEN <<>>
    ELSE LET m == CHOOSE x \in S : \A y \in S : x <= y
         IN <<m>> \o SortedSeq(S \ {m})

Glob(l) == {n \in Names : l[n] = "csv"}

Init ==
    /\ installed \in SUBSET {"polars", "pandas"}
    /\ dirExists \in BOOLEAN
    /\ listing \in Listings
    /\ dirExists = FALSE => listing = EmptyListing
    /\ out0 \in {NoFile, [exists |-> TRUE, content |-> OldContent]}
    /\ out = out0
    /\ outOpens = 0
    /\ pc = "import"
    /\ USE_POLARS = FALSE
    /\ csv_files = <<>>
    /\ i = 1
    /\ total_rows = 0
    /\ first_file = TRUE
    /\ tables = <<>>
    /\ reads = <<>>
    /\ stdout = <<>>
    /\ status = -1
    /\ fault = NoFault
    /\ response = ""

Env == <<installed, dirExists, listing, out0>>

----------------------------------------------------------------------------
\* Module import block.

ImportPolars ==
    /\ pc = "import"
    /\ "polars" \in installed
    /\ USE_POLARS' = TRUE
    /\ pc' = "main"
    /\ UNCHANGED <<Env, out, outOpens, csv_files, i, total_rows, first_file,
                   tables, reads, stdout, status, fault, response>>

ImportPandas ==
    /\ pc = "import"
    /\ "polars" \notin installed
    /\ "pandas" \in installed
    /\ USE_POLARS' = FALSE
    /\ stdout' = Append(stdout, Msg("polars_not_found", 0))
    /\ pc' = "main"
    /\ UNCHANGED <<Env, out, outOpens, csv_files, i, total_rows, first_file,
                   tables, reads, status, fault, response>>

ImportNone ==
    /\ pc = "import"
    /\ installed = {}
    /\ stdout' = stdout \o <<Msg("polars_not_found", 0), Msg("no_engine", 0)>>
    /\ status' = 1
    /\ pc' = "exit"
    /\ UNCHANGED <<Env, out, outOpens, USE_POLARS, csv_files, i, total_rows,
                   first_file, tables, reads, fault, response>>

----------------------------------------------------------------------------
\* main(): discovery and the overwrite prompt.

MainNoDir ==
    /\ pc = "main"
    /\ ~dirExists
    /\ stdout' = Append(stdout, Msg("no_directory", 0))
    /\ status' = 1
    /\ pc' = "exit"
    /\ UNCHANGED <<Env, out, outOpens, USE_POLARS, csv_files, i, total_rows,
                   first_file, tables, reads, fault, response>>

MainGlob ==
    /\ pc = "main"
    /\ dirExists
    /\ csv_files' = SortedSeq(Glob(listing))
    /\ pc' = "found"
    /\ UNCHANGED <<Env, out, outOpens, USE_POLARS, i, total_rows, first_file,
                   tables, reads, stdout, status, fault, response>>

\* Faulty variant: the emptiness test never succeeds.
NoCsvFilesNever(files) == Len(files) < 0

\* if not csv_files
NoCsvFiles(files) == files = <<>>

\* Faulty variant: an empty input set exits with status 0.
MainNoCsvStatus0 ==
    /\ pc = "found"
    /\ NoCsvFiles(csv_files)
    /\ stdout' = Append(stdout, Msg("no_csv_files", 0))
    /\ status' = 0
    /\ pc' = "exit"
    /\ UNCHANGED <<Env, out, outOpens, USE_POLARS, csv_files, i, total_rows,
                   first_file, tables, reads, fault, response>>

MainNoCsv ==
    /\ pc = "found"
    /\ NoCsvFiles(csv_files)
    /\ stdout' = Append(stdout, Msg("no_csv_files", 0))
    /\ status' = 1
    /\ pc' = "exit"
    /\ UNCHANGED <<Env, out, outOpens, USE_POLARS, csv_files, i, total_rows,
                   first_file, tables, reads, fault, response>>

\* if output_file.exists(): the prompt is printed and the answer awaited.
MainPrompt ==
    /\ pc = "found"
    /\ ~NoCsvFiles(csv_files)
    /\ out.exists
    /\ stdout' = Append(stdout, Msg("overwrite_prompt", 0))
    /\ pc' = "prompt"
    /\ UNCHANGED <<Env, out, outOpens, USE_POLARS, csv_files, i, total_rows,
                   first_file, tables, reads, status, fault, response>>

MainNoPrompt ==
    /\ pc = "found"
    /\ ~NoCsvFiles(csv_files)
    /\ ~out.exists
    /\ stdout' = stdout \o <<Msg("found", Len(csv_files)),
                             Msg("using", IF USE_POLARS THEN 1 ELSE 0)>>
    /\ pc' = "combine"
    /\ UNCHANGED <<Env, out, outOpens, USE_POLARS, csv_files, i, total_rows,
                   first_file, tables, reads, status, fault, response>>

\* Faulty variant: only n / N refuses.
AcceptsUnlessN(r) == Lower(r) # "n"

\* response.lower() != 'y' is the refusal.
Accepts(r) == Lower(r) = "y"

AnswerDecline ==
    /\ pc = "prompt"
    /\ \E r \in Responses :
        /\ ~Accepts(r)
        /\ response' = r
    /\ stdout' = Append(stdout, Msg("cancelled", 0))
    /\ status' = 0
    /\ pc' = "exit"
    /\ UNCHANGED <<Env, out, outOpens, USE_POLARS, csv_files, i, total_rows,
                   first_file, tables, reads, fault>>

AnswerAccept ==
    /\ pc = "prompt"
    /\ \E r \in Responses :
        /\ Accepts(r)
        /\ response' = r
    /\ stdout' = stdout \o <<Msg("found", Len(csv_files)),
                             Msg("using", IF USE_POLARS THEN 1 ELSE 0)>>
    /\ pc' = "combine"
    /\ UNCHANGED <<Env, out, outOpens, USE_POLARS, csv_files, i, total_rows,
                   first_file, tables, reads, status, fault>>

----------------------------------------------------------------------------
\* combine_csv_polars.

Prefixes(text) == {SubSeq(text, 1, n) : n \in 0..Len(text)}

\* The error path of both strategies: the diagnostic naming the file, the
\* re-raise, then main's handler and sys.exit(1).
ErrorOutput(name) == <<Msg("error_reading", name), Msg("failed", 0)>>

\* open(output_file, 'w'): creates or truncates the output.
PolarsOpen ==
    /\ pc = "combine"
    /\ USE_POLARS
    /\ stdout' = Append(stdout, Msg("combining", Len(csv_files)))
    /\ out' = [exists |-> TRUE, content |-> <<>>]
    /\ outOpens' = outOpens + 1
    /\ pc' = "loop"
    /\ UNCHANGED <<Env, USE_POLARS, csv_files, i, total_rows, first_file,
                   tables, reads, status, fault, response>>

\* open() raises outside the loop's try: only main's handler prints.
PolarsOpenError ==
    /\ pc = "combine"
    /\ USE_POLARS
    /\ stdout' = stdout \o <<Msg("combining", Len(csv_files)), Msg("failed", 0)>>
    /\ fault' = [kind |-> "open", k |-> 0]
    /\ status' = 1
    /\ pc' = "exit"
    /\ UNCHANGED <<Env, out, outOpens, USE_POLARS, csv_files, i, total_rows,
                   first_file, tables, reads, response>>

\* One iteration of the loop that completes.
PolarsFile ==
    /\ pc = "loop"
    /\ USE_POLARS
    /\ i <= Len(csv_files)
    /\ \E df \in Tables :
        /\ tables' = Append(tables, df)
        /\ total_rows' = total_rows + Len(df.rows)
        /\ out' = [out EXCEPT !.content = @ \o PolarsOutputText(i, df)]
        /\ stdout' = stdout \o <<Msg("reading", csv_files[i]),
                                 Msg("rows", Len(df.rows))>>
    /\ reads' = Append(reads, csv_files[i])
    /\ i' = i + 1
    /\ UNCHANGED <<Env, outOpens, pc, USE_POLARS, csv_files, first_file,
                   status, fault, response>>

\* pl.read_csv raises.  Faulty variant: the handler removes the partial output.
PolarsReadErrorCleanup ==
    /\ pc = "loop"
    /\ USE_POLARS
    /\ i <= Len(csv_files)
    /\ reads' = Append(reads, csv_files[i])
    /\ stdout' = Append(stdout, Msg("reading", csv_files[i]))
                    \o ErrorOutput(csv_files[i])
    /\ out' = NoFile
    /\ fault' = [kind |-> "read", k |-> i]
    /\ status' = 1
    /\ pc' = "exit"
    /\ UNCHANGED <<Env, outOpens, USE_POLARS, csv_files, i, total_rows,
                   first_file, tables, response>>

PolarsReadError ==
    /\ pc = "loop"
    /\ USE_POLARS
    /\ i <= Len(csv_files)
    /\ reads' = Append(reads, csv_files[i])
    /\ stdout' = Append(stdout, Msg("reading", csv_files[i]))
                    \o ErrorOutput(csv_files[i])
    /\ fault' = [kind |-> "read", k |-> i]
    /\ status' = 1
    /\ pc' = "exit"
    /\ UNCHANGED <<Env, out, outOpens, USE_POLARS, csv_files, i, total_rows,
                   first_file, tables, response>>

\* The write raises after the read: any prefix of the text may have reached
\* the file.
PolarsWriteError ==
    /\ pc = "loop"
    /\ USE_POLARS
    /\ i <= Len(csv_files)
    /\ \E df \in Tables :
        /\ tables' = Append(tables, df)
        /\ total_rows' = total_rows + Len(df.rows)
        /\ \E part \in Prefixes(PolarsOutputText(i, df)) :
              out' = [out EXCEPT !.content = @ \o part]
        /\ stdout' = stdout \o <<Msg("reading", csv_files[i]),
                                 Msg("rows", Len(df.rows))>>
                        \o ErrorOutput(csv_files[i])
    /\ reads' = Append(reads, csv_files[i])
    /\ fault' = [kind |-> "write", k |-> i]
    /\ status' = 1
    /\ pc' = "exit"
    /\ UNCHANGED <<Env, outOpens, USE_POLARS, csv_files, i, first_file,
                   response>>

\* The summary of the strategy, then main's output-size line.
SummaryOutput ==
    <<Msg("success", Len(csv_files)), Msg("total_rows", total_rows),
      Msg("output", 0), Msg("output_size", 0)>>

PolarsSummary ==
    /\ pc = "loop"
    /\ USE_POLARS
    /\ i > Len(csv_files)
    /\ stdout' = stdout \o SummaryOutput
    /\ status' = 0
    /\ pc' = "exit"
    /\ UNCHANGED <<Env, out, outOpens, USE_POLARS, csv_files, i, total_rows,
                   first_file, tables, reads, fault, response>>

----------------------------------------------------------------------------
\* combine_csv_pandas.

\* Faulty variant: the output is opened before the loop, as the other
\* strategy does.
PandasBeginTruncate ==
    /\ pc = "combine"
    /\ ~USE_POLARS
    /\ stdout' = Append(stdout, Msg("combining", Len(csv_files)))
    /\ out' = [exists |-> TRUE, content |-> <<>>]
    /\ outOpens' = outOpens + 1
    /\ pc' = "loop"
    /\ UNCHANGED <<Env, USE_POLARS, csv_files, i, total_rows, first_file,
                   tables, reads, status, fault, response>>

PandasBegin ==
    /\ pc = "combine"
    /\ ~USE_POLARS
    /\ stdout' = Append(stdout, Msg("combining", Len(csv_files)))
    /\ pc' = "loop"
    /\ UNCHANGED <<Env, out, outOpens, USE_POLARS, csv_files, i, total_rows,
                   first_file, tables, reads, status, fault, response>>

\* to_csv(mode='w') replaces the content, to_csv(mode='a') extends it.
PandasBase(first, o) == IF first THEN <<>> ELSE o.content

PandasFile ==
    /\ pc = "loop"
    /\ ~USE_POLARS
    /\ i <= Len(csv_files)
    /\ \E df \in Tables :
        /\ tables' = Append(tables, df)
        /\ total_rows' = total_rows + Len(df.rows)
        /\ out' = [exists |-> TRUE,
                   content |-> PandasBase(first_file, out)
                                  \o PandasOutputText(first_file, df)]
        /\ stdout' = stdout \o <<Msg("reading", csv_files[i]),
                                 Msg("rows", Len(df.rows))>>
    /\ outOpens' = outOpens + 1
    /\ first_file' = FALSE
    /\ reads' = Append(reads, csv_files[i])
    /\ i' = i + 1
    /\ UNCHANGED <<Env, pc, USE_POLARS, csv_files, status, fault, response>>

PandasReadError ==
    /\ pc = "loop"
    /\ ~USE_POLARS
    /\ i <= Len(csv_files)
    /\ reads' = Append(reads, csv_files[i])
    /\ stdout' = Append(stdout, Msg("reading", csv_files[i]))
                    \o ErrorOutput(csv_files[i])
    /\ fault' = [kind |-> "read", k |-> i]
    /\ status' = 1
    /\ pc' = "exit"
    /\ UNCHANGED <<Env, out, outOpens, USE_POLARS, csv_files, i, total_rows,
                   first_file, tables, response>>

\* to_csv raises: either the open failed and the output is untouched, or the
\* file was opened and any prefix of the text may have reached it.
PandasWriteError ==
    /\ pc = "loop"
    /\ ~USE_POLARS
    /\ i <= Len(csv_files)
    /\ \E df \in Tables :
        /\ tables' = Append(tables, df)
        /\ total_rows' = total_rows + Len(df.rows)
        /\ \/ UNCHANGED <<out, outOpens>>
           \/ /\ outOpens' = outOpens + 1
              /\ \E part \in Prefixes(PandasOutputText(first_file, df)) :
                    out' = [exists |-> TRUE,
                            content |-> PandasBase(first_file, out) \o part]
        /\ stdout' = stdout \o <<Msg("reading", csv_files[i]),
                                 Msg("rows", Len(df.rows))>>
                        \o ErrorOutput(csv_files[i])
    /\ reads' = Append(reads, csv_files[i])
    /\ fault' = [kind |-> "write", k |-> i]
    /\ status' = 1
    /\ pc' = "exit"
    /\ UNCHANGED <<Env, USE_POLARS, csv_files, i, first_file, response>>

PandasSummary ==
    /\ pc = "loop"
    /\ ~USE_POLARS
    /\ i > Len(csv_files)
    /\ stdout' = stdout \o SummaryOutput
    /\ status' = 0
    /\ pc' = "exit"
    /\ UNCHANGED <<Env, out, outOpens, USE_POLARS, csv_files, i, total_rows,
                   first_file, tables, reads, fault, response>>

----------------------------------------------------------------------------

Next ==
    \/ ImportPolars \/ ImportPandas \/ ImportNone
    \/ MainNoDir \/ MainGlob \/ MainNoCsv \/ MainPrompt \/ MainNoPrompt
    \/ AnswerDecline \/ AnswerAccept
    \/ PolarsOpen \/ PolarsOpenError \/ PolarsFile \/ PolarsReadError
    \/ PolarsWriteError \/ PolarsSummary
    \/ PandasBegin \/ PandasFile \/ PandasReadError \/ PandasWriteError
    \/ PandasSummary

Spec == Init /\ [][Next]_vars

----------------------------------------------------------------------------
\* The whole run of a strategy as a function of the tables it read: the
\* content of the output after files 1..n.

RECURSIVE PolarsContent(_, _)
PolarsContent(ts, n) ==
    IF n = 0 THEN <<>>
    ELSE PolarsContent(ts, n - 1) \o PolarsOutputText(n, ts[n])

RECURSIVE PandasContent(_, _)
PandasContent(ts, n) ==
    IF n = 0 THEN <<>>
    ELSE PandasContent(ts, n - 1) \o PandasOutputText(n = 1, ts[n])

\* The output file after combine_csv_polars read the tables ts and then
\* returned or failed to read the next file.
PolarsResult(ts, before) ==
    [exists |-> TRUE, content |-> PolarsContent(ts, Len(ts))]

\* The same for combine_csv_pandas.
PandasResult(ts, before) ==
    IF ts = <<>> THEN before
    ELSE [exists |-> TRUE, content |-> PandasContent(ts, Len(ts))]

----------------------------------------------------------------------------
\* Vocabulary of the properties.

Printed(m) == \E j \in 1..Len(stdout) : stdout[j].msg = m

PrintedFor(m, a) == \E j \in 1..Len(stdout) : stdout[j] = Msg(m, a)

\* The run completed without error.
Succeeded == pc = "exit" /\ Printed("success")

\* The user answered the prompt with something other than y / Y.
Declined == Printed("overwrite_prompt") /\ pc = "exit" /\ Lower(response) # "y"

\* The run failed while processing a file of the input set.
FileFault == pc = "exit" /\ fault.kind \in {"read", "write"}

SameSchema == \A j \in 1..Len(tables) : tables[j].header = tables[1].header

IsPrefix(p, s) == Len(p) <= Len(s) /\ SubSeq(s, 1, Len(p)) = p

\* The newline-terminated lines of a text.
OutLines(text) ==
    IF text = <<>> THEN <<>>
    ELSE LET pieces == Split(text)
         IN IF pieces[Len(pieces)] = <<>>
            THEN SubSeq(pieces, 1, Len(pieces) - 1)
            ELSE pieces

DataRows(text) == Slice1(OutLines(text))

RECURSIVE SumRows(_)
SumRows(ts) == IF ts = <<>> THEN 0 ELSE Len(Head(ts).rows) + SumRows(Tail(ts))

RowText(c) == IF USE_POLARS THEN PolarsCell(c) ELSE PandasCell(c)

\* The rows of the tables, file after file, each as the engine writes it.
RECURSIVE ExpectedRows(_)
ExpectedRows(ts) ==
    IF ts = <<>> THEN <<>>
    ELSE [r \in 1..Len(Head(ts).rows) |-> RowText(Head(ts).rows[r])]
            \o ExpectedRows(Tail(ts))

----------------------------------------------------------------------------
\* C1: after a successful run over same-schema files the data rows of the
\* output are exactly the rows of file 1, file 2, ..., file N in sorted file
\* order and in each file's row order, nothing inserted, dropped or reordered.
C1_RowsAreConcatenation ==
    (Succeeded /\ SameSchema) =>
        /\ reads = csv_files
        /\ DataRows(out.content) = ExpectedRows(tables)

\* C2: after a successful run the number of lines after the header line of
\* the output equals the sum of the files' row counts, which is also the
\* value of total_rows.
C2_RowCountIsSum ==
    (Succeeded /\ SameSchema) =>
        /\ total_rows = SumRows(tables)
        /\ Len(OutLines(out.content)) - 1 = SumRows(tables)

\* C3: while no error occurred, once file 1 is written the first line of the
\* output is the header of file 1 and no later line is a header, whatever
\* the headers of the later files are.
C3_HeaderOnce ==
    (fault = NoFault /\ tables # <<>>) =>
        LET lines == OutLines(out.content)
        IN /\ lines # <<>>
           /\ lines[1] = tables[1].header
           /\ \A j \in 2..Len(lines) : lines[j] \notin Headers

C3_Witness ==
    /\ Succeeded
    /\ USE_POLARS
    /\ Len(tables) >= 2
    /\ tables[2].header # tables[1].header
    /\ tables[2].rows # <<>>

\* C4: whatever the files hold and wherever a read fails, the output file and
\* the exit status the run ends with are those the other strategy ends with
\* from the same initial output file.
C4_StrategiesAgree ==
    (pc = "exit" /\ reads # <<>> /\ fault.kind \in {"none", "read"}) =>
        /\ out = IF USE_POLARS
                 THEN PandasResult(tables, out0)
                 ELSE PolarsResult(tables, out0)
        /\ status = IF fault = NoFault THEN 0 ELSE 1

\* C5: a file with a header and no rows, processed at a position i >= 2,
\* adds 0 to the running total and appends nothing to the output.
C5_HeaderOnlyAppendsNothing ==
    [][(/\ pc = "loop"
        /\ pc' = "loop"
        /\ i >= 2
        /\ i' = i + 1
        /\ tables'[i].rows = <<>>)
       => (/\ total_rows' = total_rows
           /\ out'.content = out.content)]_vars

\* C6: an error while processing file k ends the run at once: the diagnostic
\* names file k, main's handler prints, no later file is read, no summary
\* and no size line is printed, the status is 1, and what files 1..k-1 put
\* into the output is still there.
C6_ErrorAborts ==
    FileFault =>
        LET k == fault.k
            kept == IF USE_POLARS THEN PolarsContent(tables, k - 1)
                                  ELSE PandasContent(tables, k - 1)
        IN /\ PrintedFor("error_reading", csv_files[k])
           /\ stdout[Len(stdout)] = Msg("failed", 0)
           /\ reads = SubSeq(csv_files, 1, k)
           /\ ~Printed("success")
           /\ ~Printed("output_size")
           /\ status = 1
           /\ k >= 2 => (out.exists /\ IsPrefix(kept, out.content))
           /\ k >= 2 => kept # <<>>

C6_Witness ==
    /\ FileFault
    /\ fault = [kind |-> "read", k |-> 2]
    /\ Len(csv_files) >= 2
    /\ USE_POLARS
    /\ out.content # <<>>

\* C7: when the output exists at the start, nothing is read and the output
\* is not opened or changed before the prompt was answered with y or Y; any
\* other answer prints the cancellation, exits with status 0, reads nothing
\* and leaves the output as it was.
C7_PromptFirst ==
    out0.exists =>
        /\ (reads # <<>> \/ outOpens > 0 \/ out # out0)
              => (Printed("overwrite_prompt") /\ Lower(response) = "y")
        /\ Declined =>
              /\ stdout[Len(stdout)] = Msg("cancelled", 0)
              /\ status = 0
              /\ reads = <<>>
              /\ outOpens = 0
              /\ out = out0

C7_Witness ==
    /\ Declined
    /\ response = ""
    /\ out = [exists |-> TRUE, content |-> OldContent]

\* C8: a run that ended has status 0 or 1; the status is 0 exactly when all
\* files were combined or the user declined the overwrite, and it is 1 when
\* no engine is installed, the directory is missing, no *.csv file is found
\* or a read or write failed.
C8_ExitStatus ==
    /\ pc # "exit" => status = -1
    /\ pc = "exit" =>
        /\ status \in {0, 1}
        /\ status = 0 <=>
              \/ Declined
              \/ (csv_files # <<>> /\ reads = csv_files /\ fault = NoFault
                    /\ Len(tables) = Len(csv_files))
        /\ installed = {} => status = 1
        /\ ~dirExists => status = 1
        /\ Glob(listing) = {} => status = 1
        /\ fault # NoFault => status = 1

C8_Witness ==
    /\ pc = "exit"
    /\ status = 1
    /\ installed # {}
    /\ dirExists
    /\ Glob(listing) = {}
    /\ out0.exists

\* C9: when the directory is missing or holds no *.csv file, the run never
\* prompts, never starts a strategy and never opens or changes the output;
\* main prints its diagnostic and the run ends with status 1.
C9_DiscoveryFailure ==
    (~dirExists \/ Glob(listing) = {}) =>
        /\ ~Printed("overwrite_prompt")
        /\ ~Printed("combining")
        /\ reads = <<>>
        /\ outOpens = 0
        /\ out = out0
        /\ pc \in {"import", "main", "found", "exit"}
        /\ (pc = "exit" /\ installed # {}) =>
              /\ status = 1
              /\ stdout[Len(stdout)] =
                    IF dirExists THEN Msg("no_csv_files", 0)
                                 ELSE Msg("no_directory", 0)

C9_Witness ==
    /\ pc = "exit"
    /\ dirExists
    /\ Glob(listing) = {}
    /\ installed # {}
    /\ out0.exists
    /\ stdout[Len(stdout)] = Msg("no_csv_files", 0)

\* C10 as stated: with polars the output is created or truncated before the
\* first read, and a run that fails on file 1, reading or writing it, leaves
\* an empty output; with pandas the output is first opened after file 1 was
\* read, and a run that fails reading file 1 leaves the output as it was.
C10_FirstTouch ==
    /\ (USE_POLARS /\ reads # <<>>) => outOpens >= 1
    /\ (USE_POLARS /\ FileFault /\ fault.k = 1)
          => out = [exists |-> TRUE, content |-> <<>>]
    /\ (~USE_POLARS /\ outOpens >= 1) => tables # <<>>
    /\ (~USE_POLARS /\ FileFault /\ fault = [kind |-> "read", k |-> 1])
          => out = out0

\* C10 amended: as above, with the empty output of polars claimed for a run
\* that fails reading file 1.
C10_FirstTouchOnRead ==
    /\ (USE_POLARS /\ reads # <<>>) => outOpens >= 1
    /\ (USE_POLARS /\ FileFault /\ fault = [kind |-> "read", k |-> 1])
          => out = [exists |-> TRUE, content |-> <<>>]
    /\ (~USE_POLARS /\ outOpens >= 1) => tables # <<>>
    /\ (~USE_POLARS /\ FileFault /\ fault = [kind |-> "read", k |-> 1])
          => out = out0

C10_Witness ==
    /\ ~USE_POLARS
    /\ FileFault
    /\ fault = [kind |-> "read", k |-> 1]
    /\ out = [exists |-> TRUE, content |-> OldContent]

====
